---- MODULE Spec2Model ----
(***************************************************************************)
(* Lead-generation orchestration (backend/services/lead_service.py):       *)
(* the APIKeyQueue credential pool, LeadService's key management, the      *)
(* retry loops of the two provider adapters, the generate_leads pipeline   *)
(* and the polling status tracker.                                         *)
(***************************************************************************)
EXTENDS Integers, Sequences, FiniteSets, TLC

(***************************************************************************)
(* Bounds of the model and constants of the program.                       *)
(***************************************************************************)
\* number of credentials configured in APIFY_API_TOKEN
NumKeys == 2
\* calendar days the clock may advance through
MaxDay == 2
\* pool operations explored per behaviour of SpecPool
MaxOps == 6
\* per-key daily cap hard-coded in APIKeyQueue.get_next_key
DailyCap == 100
\* profiles one provider response may carry
MaxProfiles == 5
\* LinkedIn URLs one Google search may find
MaxUrls == 2
\* steps the wall clock may advance through
MaxTicks == 2
\* status updates emitted per session id in SpecTracker
MaxEmits == 4
\* polls made per session id in SpecTracker
MaxPolls == 3
\* distinct natural keys (profile URLs) of the leads in SpecSave
MaxNaturalKeys == 2
\* leads per _save_leads_to_db call in SpecSave
MaxBatch == 3
\* _save_leads_to_db calls in SpecSave
MaxSaves == 2
\* seconds after which _cleanup_old_sessions drops a completed session
SessionTTL == 300
\* the wall clock is observed in steps of one TTL: an age of exactly the TTL
\* is not yet expired, the next one is
ClockStep == SessionTTL

Keys == 1..NumKeys
\* Python's None as returned by get_next_key / get_next_available_key
None == 0

VARIABLES
    token_queue,    \* LeadService.token_queue : APIKeyQueue
    svc_exhausted,  \* LeadService.exhausted_keys
    today,          \* datetime.now().date(), as a day number
    mon,            \* observer: keys marked / returned since the last daily reset
    last,           \* observer: the last pool call, its result and what it saw
    recent,         \* observer: results of the last NumKeys get_next_key calls
    calls_on_day,   \* observer: get_next_key calls made on the current date
    none_days,      \* observer: dates on which get_next_key returned None
    ops,            \* observer: pool operations so far
    now,            \* datetime.now(), in seconds
    config,         \* settings: OPENAI_API_KEY set, Google credentials set
    status_sessions,\* LeadService.status_sessions
    run,            \* the generate_leads invocations and their locals
    last_poll,      \* observer: the get_status call just made and its result
    track,          \* observer: per session, when its terminal event was emitted
    swept,          \* observer: the sessions _cleanup_old_sessions removed
    leads_table,    \* the rows of the store's "leads" table, as linkedin_url values
    last_save,      \* observer: the last _save_leads_to_db call and its result
    scoring         \* one analyze_profile call: the oracle's answer and the results

poolVars == <<token_queue, svc_exhausted, today, mon, last, recent, calls_on_day,
              none_days, ops>>
dbVars == <<leads_table, last_save>>
runVars == <<now, config, status_sessions, run, last_poll, track, swept,
             leads_table, last_save, scoring>>
vars == <<token_queue, svc_exhausted, today, mon, last, recent, calls_on_day,
          none_days, ops, now, config, status_sessions, run, last_poll, track,
          swept, leads_table, last_save, scoring>>

(***************************************************************************)
(* APIKeyQueue                                                             *)
(***************************************************************************)
\* APIKeyQueue.__init__: a deque of the keys, nothing exhausted, usage 0
NewQueue(d) ==
    [keys |-> [i \in 1..NumKeys |-> i],
     exhausted_keys |-> {},
     daily_limits |-> [k \in Keys |-> 0],
     last_reset |-> d]

\* a queue on which every key has been handed out u times today
UsedQueue(d, u) == [NewQueue(d) EXCEPT !.daily_limits = [k \in Keys |-> u]]

\* mutant: the reset does not record the date it was made on
ResetIfNewDay_KeepsDate(q, d) ==
    IF d > q.last_reset
    THEN [q EXCEPT !.daily_limits = [k \in Keys |-> 0],
                   !.exhausted_keys = {}]
    ELSE q

\* mutant: the reset forgets the usage counters
ResetIfNewDay_KeepsUsage(q, d) ==
    IF d > q.last_reset
    THEN [q EXCEPT !.exhausted_keys = {}, !.last_reset = d]
    ELSE q

\* the lazy daily reset at the head of get_next_key
ResetIfNewDay(q, d) ==
    IF d > q.last_reset
    THEN [q EXCEPT !.daily_limits = [k \in Keys |-> 0],
                   !.exhausted_keys = {},
                   !.last_reset = d]
    ELSE q

\* mutant: the exhausted set is not consulted
KeyUsable_IgnoresExhausted(q, key) == q.daily_limits[key] < DailyCap

\* whether the scan of get_next_key accepts this key
KeyUsable(q, key) ==
    key \notin q.exhausted_keys /\ q.daily_limits[key] < DailyCap

\* mutant: the deque is not rotated
Rotate_Stays(q) == q

\* self.keys.rotate(-1)
Rotate(q) == [q EXCEPT !.keys = Tail(q.keys) \o <<Head(q.keys)>>]

\* the scan of get_next_key: look at keys[0], rotate, return the first usable
RECURSIVE ScanKeys(_, _)
ScanKeys(q, n) ==
    IF n = 0
    THEN [key |-> None, q |-> q]
    ELSE LET key == Head(q.keys)
             q2 == Rotate(q)
         IN IF KeyUsable(q2, key)
            THEN [key |-> key,
                  q |-> [q2 EXCEPT !.daily_limits[key] = @ + 1]]
            ELSE ScanKeys(q2, n - 1)

\* APIKeyQueue.get_next_key on date d
get_next_key(q, d) ==
    LET q1 == ResetIfNewDay(q, d)
    IN ScanKeys(q1, Len(q1.keys))

\* APIKeyQueue.mark_exhausted
mark_exhausted(q, key) == [q EXCEPT !.exhausted_keys = @ \cup {key}]

(***************************************************************************)
(* LeadService key management                                              *)
(***************************************************************************)
\* whether get_next_available_key hands the key it got from the queue on
KeyAccepted(key, exh) == key # None /\ key \notin exh

\* LeadService.get_next_available_key: up to total_keys calls of get_next_key
\* `inner` collects what the queue returned to each of them
RECURSIVE AvailLoop(_, _, _, _, _)
AvailLoop(q, exh, d, n, inner) ==
    IF n = 0
    THEN [key |-> None, q |-> q, inner |-> inner]
    ELSE LET r == get_next_key(q, d)
         IN IF KeyAccepted(r.key, exh)
            THEN [key |-> r.key, q |-> r.q, inner |-> Append(inner, r.key)]
            ELSE AvailLoop(r.q, exh, d, n - 1, Append(inner, r.key))

get_next_available_key(q, exh, d) == AvailLoop(q, exh, d, NumKeys, <<>>)

\* mutant: marking a key has no effect
mark_key_exhausted_Forgets(q, exh, key) == [q |-> q, exh |-> exh]

\* LeadService.mark_key_exhausted: the service's own set and the queue's
mark_key_exhausted(q, exh, key) ==
    [q |-> mark_exhausted(q, key), exh |-> exh \cup {key}]

(***************************************************************************)
(* Status tracker                                                          *)
(***************************************************************************)
SessionIds == {"s1"}
\* session_id = None
NoSid == "none"

\* a status dict passed to emit_status: its type, the count it reports, and
\* its "completed" key when it has one ({} when it has none)
Ev(type, count) == [type |-> type, count |-> count, completed |-> {}]
EvCompleted(type, count, c) == [type |-> type, count |-> count, completed |-> {c}]

\* the types emit_status treats as completion
Terminal(type) == type \in {"generation_completed", "error"}

\* create_status_session: completed False (0), no completion_timestamp
NewSession ==
    [active |-> TRUE, completed |-> 0, status_history |-> <<>>,
     current_status |-> <<>>, completion_timestamp |-> {}]

create_status_session(sessions, sid) ==
    [x \in DOMAIN sessions \cup {sid} |->
        IF x = sid THEN NewSession ELSE sessions[x]]

\* self.status_sessions[session_id].update(timestamped_status): the keys of
\* the status dict overwrite the session's own fields of the same name
UpdateFields(s, ev) ==
    IF ev.completed = {} THEN s
    ELSE [s EXCEPT !.completed = CHOOSE c \in ev.completed : TRUE]

\* the completion branch of emit_status: completed True (1), active False
MarkCompleted(s, ev) ==
    IF Terminal(ev.type) THEN [s EXCEPT !.completed = 1, !.active = FALSE] ELSE s

\* mutant: an emit for an unknown id registers the session again
emit_status_Recreates(sessions, sid, ev) ==
    LET known == create_status_session(sessions, sid)
        all == IF sid \in DOMAIN sessions THEN sessions ELSE known
        s1 == [all[sid] EXCEPT
                  !.status_history = Append(@, ev),
                  !.current_status = <<ev>>]
    IN [all EXCEPT ![sid] = MarkCompleted(UpdateFields(s1, ev), ev)]

\* mutant: the history keeps only the newest status dict
emit_status_Overwrites(sessions, sid, ev) ==
    IF sid \in DOMAIN sessions
    THEN LET s1 == [sessions[sid] EXCEPT
                        !.status_history = <<ev>>,
                        !.current_status = <<ev>>]
         IN [sessions EXCEPT ![sid] = MarkCompleted(UpdateFields(s1, ev), ev)]
    ELSE sessions

\* emit_status
emit_status(sessions, sid, ev) ==
    IF sid \in DOMAIN sessions
    THEN LET s1 == [sessions[sid] EXCEPT
                        !.status_history = Append(@, ev),
                        !.current_status = <<ev>>]
         IN [sessions EXCEPT ![sid] = MarkCompleted(UpdateFields(s1, ev), ev)]
    ELSE sessions

\* `if session_id: self.emit_status(...)`, for a list of status dicts
RECURSIVE EmitAll(_, _, _)
EmitAll(sessions, sid, evs) ==
    IF sid = NoSid \/ evs = <<>> THEN sessions
    ELSE EmitAll(emit_status(sessions, sid, Head(evs)), sid, Tail(evs))

\* Python truthiness of session_data.get("completed", False)
Truthy(v) == v # 0

\* the test of _cleanup_old_sessions
Expired(s, t) ==
    /\ Truthy(s.completed)
    /\ s.completion_timestamp # {}
    /\ \E ts \in s.completion_timestamp : t - ts > SessionTTL

\* _cleanup_old_sessions
cleanup_old_sessions(sessions, t) ==
    [x \in {y \in DOMAIN sessions : ~Expired(sessions[y], t)} |-> sessions[x]]

\* close_status_session
close_status_session(sessions, sid) ==
    [x \in DOMAIN sessions \ {sid} |-> sessions[x]]

\* the tail of get_status: stamp a completed session on its first read
StampCompletion(s, t) ==
    IF Truthy(s.completed) /\ s.completion_timestamp = {}
    THEN [s EXCEPT !.completion_timestamp = {t}]
    ELSE s

\* mutant: a completed session is answered with the first status of its
\* history instead of the current one
get_status_FirstOfHistory(sessions, sid, t) ==
    LET kept == cleanup_old_sessions(sessions, t)
    IN IF sid \notin DOMAIN kept
       THEN [sessions |-> kept,
             result |-> [status |-> "not_found", current |-> <<>>,
                         active |-> FALSE, completed |-> 0]]
       ELSE [sessions |-> [kept EXCEPT ![sid] = StampCompletion(@, t)],
             result |-> [status |-> "found",
                         current |-> IF Truthy(kept[sid].completed)
                                     THEN <<Head(kept[sid].status_history)>>
                                     ELSE kept[sid].current_status,
                         active |-> kept[sid].active,
                         completed |-> kept[sid].completed]]

\* mutant: an unknown id gets a fresh session registered for it
get_status_CreatesUnknown(sessions, sid, t) ==
    LET kept == cleanup_old_sessions(sessions, t)
    IN IF sid \notin DOMAIN kept
       THEN [sessions |-> create_status_session(kept, sid),
             result |-> [status |-> "not_found", current |-> <<>>,
                         active |-> FALSE, completed |-> 0]]
       ELSE [sessions |-> [kept EXCEPT ![sid] = StampCompletion(@, t)],
             result |-> [status |-> "found",
                         current |-> kept[sid].current_status,
                         active |-> kept[sid].active,
                         completed |-> kept[sid].completed]]

\* get_status: the sessions it leaves and the snapshot it returns
get_status(sessions, sid, t) ==
    LET kept == cleanup_old_sessions(sessions, t)
    IN IF sid \notin DOMAIN kept
       THEN [sessions |-> kept,
             result |-> [status |-> "not_found", current |-> <<>>,
                         active |-> FALSE, completed |-> 0]]
       ELSE [sessions |-> [kept EXCEPT ![sid] = StampCompletion(@, t)],
             result |-> [status |-> "found",
                         current |-> kept[sid].current_status,
                         active |-> kept[sid].active,
                         completed |-> kept[sid].completed]]

(***************************************************************************)
(* Observer of the pool: what a caller can know from the calls it made.    *)
(* A daily reset is due at the first acquisition made on a later date than *)
(* the previous reset; marks and returns are counted since that reset.     *)
(***************************************************************************)
NewMon(d, u) ==
    [exh |-> {}, used |-> [k \in Keys |-> u], reset_day |-> d,
     mark_days |-> [k \in Keys |-> {}]]

MonReset(m, d) ==
    IF d > m.reset_day
    THEN [m EXCEPT !.exh = {}, !.used = [k \in Keys |-> 0], !.reset_day = d]
    ELSE m

\* the keys mark_key_exhausted was called for on date d
MarkedOn(m, d) == {k \in Keys : d \in m.mark_days[k]}

MonReturn(m, key) ==
    IF key = None THEN m ELSE [m EXCEPT !.used[key] = @ + 1]

RECURSIVE MonReturns(_, _)
MonReturns(m, rets) ==
    IF rets = <<>> THEN m ELSE MonReturns(MonReturn(m, Head(rets)), Tail(rets))

Window(w, x) ==
    IF Len(w) < NumKeys THEN Append(w, x) ELSE Append(Tail(w), x)

NoCall == [op |-> "none", ret |-> None, exh |-> {}, marked_today |-> {},
           used |-> [k \in Keys |-> 0], reset |-> FALSE]

Bump(n) == IF n < MaxOps THEN n + 1 ELSE n

(***************************************************************************)
(* Pool operations as actions                                              *)
(***************************************************************************)
\* the pool on day 0 after u rounds of acquisitions and with the keys of
\* exh marked exhausted by earlier runs
InitPoolWith(u, exh) ==
    /\ token_queue = [UsedQueue(0, u) EXCEPT !.exhausted_keys = exh]
    /\ svc_exhausted = exh
    /\ today = 0
    /\ mon = [NewMon(0, u) EXCEPT !.exh = exh,
                                  !.mark_days = [k \in Keys |->
                                                   IF k \in exh THEN {0} ELSE {}]]
    /\ last = NoCall
    /\ recent = <<>>
    /\ calls_on_day = NumKeys * u
    /\ none_days = {}
    /\ ops = 0

InitPool(u) == InitPoolWith(u, {})

\* a direct call of token_queue.get_next_key()
GetNextKeyCall ==
    LET r == get_next_key(token_queue, today)
        m == MonReset(mon, today)
    IN /\ token_queue' = r.q
       /\ mon' = MonReturn(m, r.key)
       /\ last' = [op |-> "get_next_key", ret |-> r.key, exh |-> m.exh,
                   marked_today |-> MarkedOn(m, today),
                   used |-> m.used, reset |-> today > mon.reset_day]
       /\ recent' = Window(recent, r.key)
       /\ calls_on_day' = calls_on_day + 1
       /\ none_days' = IF r.key = None THEN none_days \cup {today} ELSE none_days
       /\ ops' = Bump(ops)
       /\ UNCHANGED <<svc_exhausted, today>>
       /\ UNCHANGED runVars

\* a call of LeadService.get_next_available_key()
GetNextAvailableKeyCall ==
    LET r == get_next_available_key(token_queue, svc_exhausted, today)
        m == MonReset(mon, today)
    IN /\ token_queue' = r.q
       /\ mon' = MonReturns(m, r.inner)
       /\ last' = [op |-> "get_next_available_key", ret |-> r.key,
                   exh |-> m.exh, marked_today |-> MarkedOn(m, today),
                   used |-> m.used, reset |-> today > mon.reset_day]
       /\ ops' = Bump(ops)
       /\ UNCHANGED <<svc_exhausted, today, recent, calls_on_day, none_days>>
       /\ UNCHANGED runVars

\* a call of LeadService.mark_key_exhausted(key)
MarkKeyExhaustedCall(key) ==
    LET r == mark_key_exhausted(token_queue, svc_exhausted, key)
    IN /\ token_queue' = r.q
       /\ svc_exhausted' = r.exh
       /\ mon' = [mon EXCEPT !.exh = @ \cup {key},
                             !.mark_days[key] = @ \cup {today}]
       /\ last' = [NoCall EXCEPT !.op = "mark_key_exhausted", !.ret = key]
       /\ ops' = Bump(ops)
       /\ UNCHANGED <<today, recent, calls_on_day, none_days>>
       /\ UNCHANGED runVars

\* midnight passes
AdvanceDay ==
    /\ today < MaxDay
    /\ today' = today + 1
    /\ calls_on_day' = 0
    /\ last' = [NoCall EXCEPT !.op = "advance_day"]
    /\ UNCHANGED <<token_queue, svc_exhausted, mon, recent, none_days, ops>>
    /\ UNCHANGED runVars

(***************************************************************************)
(* generate_leads                                                          *)
(*                                                                         *)
(* The service runs on one asyncio event loop: a run is interleaved with   *)
(* other runs and with status polls only where it awaits asyncio.sleep     *)
(* (run[r].yield), which it does only when it has a session id.  The       *)
(* provider calls are blocking requests.post calls: nothing else runs      *)
(* while one is in flight, but the clock advances.                         *)
(***************************************************************************)
RunIds == {"r1", "r2"}
\* the values of params["method"]: the two pipelines, another string, none
Methods == {"apollo", "google_apify", "other", ""}

NoReturn == [status |-> "none", count |-> 0]
NoSearch == [fn |-> "none", any_ok |-> FALSE, size |-> 0]

IdleRun ==
    [pc |-> "idle", yield |-> FALSE, method |-> "", job_titles |-> FALSE,
     locations |-> FALSE, sid |-> NoSid, created |-> FALSE,
     acquired |-> FALSE, got_none |-> FALSE, called |-> FALSE,
     outcome |-> "none", acqs |-> 0, calls |-> 0, leads |-> <<>>, results |-> "unbound", nres |-> 0,
     attempt |-> 0, key |-> None, any_ok |-> FALSE, urls |-> 0, i |-> 0,
     enriched |-> <<>>, idx |-> 0, persisted |-> 0, sret |-> NoSearch,
     ret |-> NoReturn]
\* method, job_titles, locations: the params (a list is TRUE when non-empty);
\* created, acquired, got_none, called, persisted, any_ok, sret: what the run
\* has done so far (session created, get_next_available_key called, one of
\* its calls returned None, requests.post called (outcome: what the call of
\* the current _search_apollo_leads attempt ended in; acqs, calls: the
\* get_next_available_key and requests.post calls of the current invocation
\* of _search_apollo_leads or enrich_profile_with_apify), leads handed to _save_leads_to_db, an attempt of the current
\* search succeeded, the last search function's return)

\* a profile dict: where it came from and which ICP score it carries
Lead(src, score) == [src |-> src, score |-> score]

AtYield(o) == run[o].pc \in {"idle", "returned"} \/ run[o].yield
\* run r holds the event loop, or may take it
MayStep(r) == \A o \in RunIds \ {r} : AtYield(o)
\* no run holds the event loop
Quiet == \A o \in RunIds : AtYield(o)
InCall(o) == run[o].pc \in {"apollo_call", "enrich_call"}

NewTrack == [terminal_at |-> {}, read |-> FALSE]

\* observer: no get_status call was just made
NoPoll == [sid |-> NoSid, status |-> "none", current |-> <<>>, active |-> FALSE,
           completed |-> 0, first_after_terminal |-> FALSE, age |-> 0]

\* observer: the time of a session's terminal event
TrackEmit(tr, sessions, sid, evs) ==
    IF sid \in DOMAIN sessions /\ \E j \in 1..Len(evs) : Terminal(evs[j].type)
    THEN [tr EXCEPT ![sid] = [terminal_at |-> {now}, read |-> FALSE]]
    ELSE tr

\* `if session_id: self.emit_status(session_id, ...)` for each of evs
Emit(sid, evs) ==
    /\ status_sessions' = EmitAll(status_sessions, sid, evs)
    /\ track' = TrackEmit(track, status_sessions, sid, evs)

\* mutant: the validation does not look at locations
ValidParams_IgnoresLocations(method, job_titles, locations) ==
    method # "" /\ job_titles

\* the validation at the head of generate_leads
ValidParams(method, job_titles, locations) ==
    method # "" /\ job_titles /\ locations

\* generate_leads up to its first await: validation, session, "started"
Start(r) ==
    /\ run[r].pc = "idle"
    /\ MayStep(r)
    /\ \E method \in Methods, job_titles \in BOOLEAN, locations \in BOOLEAN,
          sid \in SessionIds \cup {NoSid} :
          IF ~ValidParams(method, job_titles, locations)
          THEN /\ run' = [run EXCEPT ![r] =
                            [@ EXCEPT !.pc = "returned", !.method = method,
                                      !.job_titles = job_titles,
                                      !.locations = locations, !.sid = sid,
                                      !.ret = [status |-> "error", count |-> 0]]]
               /\ UNCHANGED <<status_sessions, track>>
          ELSE /\ run' = [run EXCEPT ![r] =
                            [@ EXCEPT !.pc = "dispatch", !.method = method,
                                      !.job_titles = job_titles,
                                      !.locations = locations,
                                      !.sid = sid, !.created = sid # NoSid,
                                      !.yield = sid # NoSid]]
               /\ IF sid = NoSid
                  THEN UNCHANGED <<status_sessions, track>>
                  ELSE /\ status_sessions' =
                              emit_status(create_status_session(status_sessions, sid),
                                          sid, Ev("started", 0))
                       /\ track' = [track EXCEPT ![sid] = NewTrack]
    /\ last_poll' = NoPoll
    /\ UNCHANGED <<poolVars, now, config, dbVars, scoring, swept>>

\* the dispatch on method
Dispatch(r) ==
    /\ run[r].pc = "dispatch"
    /\ MayStep(r)
    /\ LET me == run[r] IN
       CASE me.method = "apollo" ->
              \* _search_apollo_leads up to its retry loop
              /\ run' = [run EXCEPT ![r] =
                           [me EXCEPT !.pc = "apollo_loop", !.yield = FALSE,
                                      !.acqs = 0, !.calls = 0]]
              /\ Emit(me.sid, <<Ev("apollo_search_started", 0),
                                Ev("apollo_url_generated", 0)>>)
         [] me.method = "google_apify" /\ ~config.google ->
              \* _search_google_leads without credentials: return []
              /\ run' = [run EXCEPT ![r] =
                           [me EXCEPT !.pc = "score", !.yield = FALSE,
                                      !.leads = <<>>]]
              /\ UNCHANGED <<status_sessions, track>>
         [] me.method = "google_apify" /\ config.google ->
              /\ run' = [run EXCEPT ![r] =
                           [me EXCEPT !.pc = "google_search",
                                      !.yield = me.sid # NoSid]]
              /\ Emit(me.sid, <<Ev("google_search_started", 0)>>)
         [] OTHER ->
              \* "Invalid method specified"
              /\ run' = [run EXCEPT ![r] =
                           [me EXCEPT !.pc = "returned", !.yield = FALSE,
                                      !.ret = [status |-> "error", count |-> 0]]]
              /\ UNCHANGED <<status_sessions, track>>
    /\ last_poll' = NoPoll
    /\ UNCHANGED <<poolVars, now, config, dbVars, scoring, swept>>

(***************************************************************************)
(* _search_apollo_leads: the retry loop and the processing after it        *)
(***************************************************************************)
\* what one provider call can end in
HttpMarked == {"http_429", "http_401_403"}
HttpOther == {"http_other", "timeout", "request_error", "invalid_json"}
\* bodies of a 200/201/400 answer that are no profile list: an empty list or
\* dict, JSON null, a dict without data/items, a body that is no list
BadBodies == {"empty", "null", "dict_no_data", "non_list"}
Outcomes == HttpMarked \cup HttpOther \cup BadBodies \cup {"soft_exhaustion", "ok"}

\* mutant: `continue` goes round without a new attempt number
RetryOrGiveUp_SameAttempt(me, loop) == [me EXCEPT !.pc = loop]

\* `if attempt == max_retries - 1: return []` then `continue`
RetryOrGiveUp(me, loop) ==
    IF me.attempt = NumKeys - 1
    THEN [me EXCEPT !.pc = "score", !.leads = <<>>,
                    !.sret = [fn |-> "apollo", any_ok |-> me.any_ok, size |-> 0]]
    ELSE [me EXCEPT !.pc = loop, !.attempt = @ + 1]

\* a variant in which a None credential ends the whole run with an error
ApolloAcquire_AbortsOnNone(r) ==
    /\ run[r].pc = "apollo_loop"
    /\ MayStep(r)
    /\ LET me == run[r]
           a == get_next_available_key(token_queue, svc_exhausted, today)
       IN IF me.attempt >= NumKeys
          THEN /\ run' = [run EXCEPT ![r] = [me EXCEPT !.pc = "apollo_process",
                                                             !.outcome = "none"]]
               /\ UNCHANGED token_queue
          ELSE /\ token_queue' = a.q
               /\ run' = [run EXCEPT ![r] =
                     IF a.key = None
                     THEN [me EXCEPT !.pc = "returned", !.yield = FALSE,
                                     !.leads = <<>>, !.outcome = "none",
                                     !.acqs = @ + 1,
                                     !.acquired = TRUE, !.got_none = TRUE,
                                     !.ret = [status |-> "error", count |-> 0]]
                     ELSE [me EXCEPT !.pc = "apollo_call", !.key = a.key,
                                     !.outcome = "none", !.acqs = @ + 1,
                                     !.calls = @ + 1,
                                     !.acquired = TRUE, !.called = TRUE]]
    /\ last_poll' = NoPoll
    /\ UNCHANGED <<svc_exhausted, today, mon, last, recent, calls_on_day,
                   none_days, ops, now, config, dbVars, scoring, status_sessions, track, swept>>

\* the head of one iteration: `for attempt in range(max_retries)` and
\* get_next_available_key
ApolloAcquire(r) ==
    /\ run[r].pc = "apollo_loop"
    /\ MayStep(r)
    /\ LET me == run[r]
           a == get_next_available_key(token_queue, svc_exhausted, today)
       IN IF me.attempt >= NumKeys
          THEN /\ run' = [run EXCEPT ![r] = [me EXCEPT !.pc = "apollo_process",
                                                             !.outcome = "none"]]
               /\ UNCHANGED token_queue
          ELSE /\ token_queue' = a.q
               /\ run' = [run EXCEPT ![r] =
                     IF a.key = None
                     THEN [me EXCEPT !.pc = "score", !.leads = <<>>,
                                     !.outcome = "none", !.acqs = @ + 1,
                                     !.acquired = TRUE, !.got_none = TRUE,
                                     !.sret = [fn |-> "apollo",
                                               any_ok |-> me.any_ok, size |-> 0]]
                     ELSE [me EXCEPT !.pc = "apollo_call", !.key = a.key,
                                     !.outcome = "none", !.acqs = @ + 1,
                                     !.calls = @ + 1,
                                     !.acquired = TRUE, !.called = TRUE]]
    /\ last_poll' = NoPoll
    /\ UNCHANGED <<svc_exhausted, today, mon, last, recent, calls_on_day,
                   none_days, ops, now, config, dbVars, scoring, status_sessions, track, swept>>

\* requests.post and everything the iteration does with the answer
ApolloCall(r) ==
    /\ run[r].pc = "apollo_call"
    /\ MayStep(r)
    /\ \E o \in Outcomes, n \in 0..MaxProfiles :
       LET me == run[r]
           marked == mark_key_exhausted(token_queue, svc_exhausted, me.key)
           next == [me EXCEPT !.pc = "apollo_loop", !.attempt = @ + 1,
                              !.outcome = o]
       IN /\ (o # "ok" => n = 0)
          /\ CASE o \in HttpMarked ->
                   /\ token_queue' = marked.q
                   /\ svc_exhausted' = marked.exh
                   /\ run' = [run EXCEPT ![r] = next]
                   /\ UNCHANGED <<status_sessions, track>>
              [] o \in HttpOther ->
                   /\ run' = [run EXCEPT ![r] = RetryOrGiveUp([me EXCEPT !.outcome = o], "apollo_loop")]
                   /\ UNCHANGED <<token_queue, svc_exhausted, status_sessions, track>>
              [] o = "soft_exhaustion" ->
                   \* results is bound to the one-element list, then the key
                   \* is marked and the loop continues
                   /\ token_queue' = marked.q
                   /\ svc_exhausted' = marked.exh
                   /\ run' = [run EXCEPT ![r] =
                                [next EXCEPT !.results = "soft_exhaustion",
                                             !.nres = 1]]
                   /\ UNCHANGED <<status_sessions, track>>
              [] o \in BadBodies ->
                   /\ run' = [run EXCEPT ![r] =
                                RetryOrGiveUp([me EXCEPT !.results = o, !.nres = 0,
                                                         !.outcome = o],
                                              "apollo_loop")]
                   /\ UNCHANGED <<token_queue, svc_exhausted, status_sessions, track>>
              [] o = "ok" ->
                   \* a list of n profile dicts, bare or under data/items
                   /\ run' = [run EXCEPT ![r] =
                                [me EXCEPT !.pc = "apollo_process",
                                           !.results = "profiles", !.nres = n,
                                           !.any_ok = TRUE, !.outcome = o]]
                   /\ Emit(me.sid, <<Ev("profiles_found", n)>>)
                   /\ UNCHANGED <<token_queue, svc_exhausted>>
    /\ last_poll' = NoPoll
    /\ UNCHANGED <<today, mon, last, recent, calls_on_day, none_days, ops, now,
                   config, dbVars, scoring, swept>>

\* "profile_processed" for profiles 1..n
ProcessedEvents(n) == [j \in 1..n |-> Ev("profile_processed", j)]

\* the profiles the code after the loop builds from what `results` holds
ProfilesOf(results, n) ==
    CASE results = "profiles" -> [j \in 1..n |-> Lead("apollo", "none")]
      [] results = "soft_exhaustion" -> <<Lead("soft_exhaustion", "none")>>
      [] OTHER -> <<>>

\* the status updates of the code after the loop
ProcessEvents(results, n) ==
    CASE results \in {"unbound", "null"} -> <<>>
      [] results \in {"profiles", "soft_exhaustion"} /\ n > 0 ->
            <<Ev("processing_started", n)>> \o ProcessedEvents(n)
               \o <<Ev("apollo_search_completed", n)>>
      [] OTHER -> <<Ev("processing_started", n), Ev("apollo_search_error", 0)>>

\* the code after the retry loop ("If we get here, we have successful
\* results"): len(results) and the loop over results; an unbound or null
\* `results` raises into the outer handler, which returns []
ApolloProcess(r) ==
    /\ run[r].pc = "apollo_process"
    /\ MayStep(r)
    /\ LET me == run[r]
           profiles == ProfilesOf(me.results, me.nres)
       IN /\ run' = [run EXCEPT ![r] =
                       [me EXCEPT !.pc = "score", !.leads = profiles,
                                  !.outcome = "none",
                                  !.sret = [fn |-> "apollo", any_ok |-> me.any_ok,
                                            size |-> Len(profiles)]]]
          /\ Emit(me.sid, ProcessEvents(me.results, me.nres))
    /\ last_poll' = NoPoll
    /\ UNCHANGED <<poolVars, now, config, dbVars, scoring, swept>>

(***************************************************************************)
(* _search_google_leads, batch_enrich_profiles, enrich_profile_with_apify  *)
(***************************************************************************)
\* search_linkedin_profiles_google and the status update on its result, or
\* the except of _search_google_leads, "error" and return [], when the
\* query building raises (params is a Dict[str, Any] and the chat endpoint
\* passes jobTitles and industries as they came out of the model's JSON;
\* job_titles[:3] and industries[0] are outside the per-query try)
GoogleSearch(r) ==
    /\ run[r].pc = "google_search"
    /\ MayStep(r)
    /\ LET me == run[r] IN
       \/ /\ run' = [run EXCEPT ![r] =
                        [me EXCEPT !.pc = "score", !.yield = FALSE,
                                   !.leads = <<>>]]
          /\ Emit(me.sid, <<Ev("error", 0)>>)
       \/ \E m \in 0..MaxUrls :
          /\ run' = [run EXCEPT ![r] =
                        IF m = 0
                        THEN [me EXCEPT !.pc = "score", !.yield = FALSE,
                                        !.leads = <<>>]
                        ELSE [me EXCEPT !.pc = "enrich_start", !.urls = m,
                                        !.yield = me.sid # NoSid]]
          /\ Emit(me.sid, <<Ev("google_search_completed", m)>>)
    /\ last_poll' = NoPoll
    /\ UNCHANGED <<poolVars, now, config, dbVars, scoring, swept>>

\* the head of batch_enrich_profiles; its status dict has "completed": 0
EnrichStart(r) ==
    /\ run[r].pc = "enrich_start"
    /\ MayStep(r)
    /\ LET me == run[r] IN
       /\ run' = [run EXCEPT ![r] =
                    [me EXCEPT !.pc = "enrich_item", !.i = 1, !.enriched = <<>>,
                               !.yield = me.sid # NoSid]]
       /\ Emit(me.sid, <<EvCompleted("apify_enrichment_started", me.urls, 0)>>)
    /\ last_poll' = NoPoll
    /\ UNCHANGED <<poolVars, now, config, dbVars, scoring, swept>>

\* the head of one iteration over linkedin_urls, or the end of the loop
EnrichItem(r) ==
    /\ run[r].pc = "enrich_item"
    /\ MayStep(r)
    /\ LET me == run[r] IN
       IF me.i > me.urls
       THEN /\ run' = [run EXCEPT ![r] =
                         [me EXCEPT !.pc = "score", !.yield = FALSE,
                                    !.leads = me.enriched]]
            /\ Emit(me.sid, <<Ev("apify_enrichment_completed", Len(me.enriched))>>)
       ELSE /\ run' = [run EXCEPT ![r] =
                         [me EXCEPT !.pc = "enrich_loop", !.attempt = 0,
                                    !.acqs = 0, !.calls = 0,
                                    !.any_ok = FALSE, !.yield = me.sid # NoSid]]
            /\ Emit(me.sid, <<Ev("apify_enrichment_progress", me.i)>>)
    /\ last_poll' = NoPoll
    /\ UNCHANGED <<poolVars, now, config, dbVars, scoring, swept>>

\* batch_enrich_profiles with what enrich_profile_with_apify returned: the
\* first profile is kept and "profile_enriched" carries "completed": the
\* number of profiles enriched so far
EnrichReturn(me, profiles) ==
    LET kept == IF profiles = <<>> THEN me.enriched
                ELSE Append(me.enriched, Head(profiles))
    IN [me EXCEPT !.pc = "enrich_item", !.yield = FALSE, !.i = @ + 1,
                  !.enriched = kept,
                  !.sret = [fn |-> "enrich", any_ok |-> me.any_ok,
                            size |-> Len(profiles)]]

EnrichReturnEvents(me, profiles) ==
    IF profiles = <<>> THEN <<>>
    ELSE <<EvCompleted("profile_enriched", me.i, Len(me.enriched) + 1)>>

\* enrich_profile_with_apify: `for attempt in range(max_retries)` and
\* get_next_available_key
EnrichAcquire(r) ==
    /\ run[r].pc = "enrich_loop"
    /\ MayStep(r)
    /\ LET me == run[r]
           a == get_next_available_key(token_queue, svc_exhausted, today)
       IN IF me.attempt >= NumKeys
          THEN \* the loop is over: return []
               /\ run' = [run EXCEPT ![r] = EnrichReturn(me, <<>>)]
               /\ UNCHANGED token_queue
          ELSE /\ token_queue' = a.q
               /\ run' = [run EXCEPT ![r] =
                     IF a.key = None
                     THEN EnrichReturn([me EXCEPT !.acquired = TRUE,
                                                     !.acqs = @ + 1,
                                                     !.got_none = TRUE], <<>>)
                     ELSE [me EXCEPT !.pc = "enrich_call", !.yield = FALSE,
                                     !.key = a.key, !.acquired = TRUE,
                                     !.acqs = @ + 1, !.calls = @ + 1,
                                     !.called = TRUE]]
    /\ last_poll' = NoPoll
    /\ UNCHANGED <<svc_exhausted, today, mon, last, recent, calls_on_day,
                   none_days, ops, now, config, dbVars, scoring, status_sessions, track, swept>>

\* `if attempt == max_retries - 1: return []` then `continue`
EnrichRetryOrGiveUp(me) ==
    IF me.attempt = NumKeys - 1
    THEN EnrichReturn(me, <<>>)
    ELSE [me EXCEPT !.pc = "enrich_loop", !.attempt = @ + 1]

\* requests.post and everything the iteration does with the answer; any
\* non-empty list is taken for profiles, each scored by analyze_profile
EnrichCall(r) ==
    /\ run[r].pc = "enrich_call"
    /\ MayStep(r)
    /\ \E o \in Outcomes, n \in {1, MaxProfiles} :
       LET me == run[r]
           marked == mark_key_exhausted(token_queue, svc_exhausted, me.key)
           got == [me EXCEPT !.any_ok = TRUE]
           profiles == [j \in 1..n |-> Lead("apify", "scored")]
           junk == <<Lead("soft_exhaustion", "scored")>>
       IN /\ (o # "ok" => n = 1)
          /\ CASE o \in HttpMarked ->
                   /\ token_queue' = marked.q
                   /\ svc_exhausted' = marked.exh
                   /\ run' = [run EXCEPT ![r] =
                                [me EXCEPT !.pc = "enrich_loop", !.attempt = @ + 1]]
                   /\ UNCHANGED <<status_sessions, track>>
              [] o \in HttpOther \cup BadBodies ->
                   /\ run' = [run EXCEPT ![r] = EnrichRetryOrGiveUp(me)]
                   /\ UNCHANGED <<token_queue, svc_exhausted, status_sessions, track>>
              [] o = "soft_exhaustion" ->
                   /\ run' = [run EXCEPT ![r] = EnrichReturn(me, junk)]
                   /\ Emit(me.sid, EnrichReturnEvents(me, junk))
                   /\ UNCHANGED <<token_queue, svc_exhausted>>
              [] o = "ok" ->
                   /\ run' = [run EXCEPT ![r] = EnrichReturn(got, profiles)]
                   /\ Emit(me.sid, EnrichReturnEvents(me, profiles))
                   /\ UNCHANGED <<token_queue, svc_exhausted>>
    /\ last_poll' = NoPoll
    /\ UNCHANGED <<today, mon, last, recent, calls_on_day, none_days, ops, now,
                   config, dbVars, scoring, swept>>

(***************************************************************************)
(* generate_leads after the search: scoring, saving, completion            *)
(***************************************************************************)
\* the guard of the scoring block
ScoringRuns(me) ==
    config.openai /\ me.leads # <<>> /\ me.method = "apollo"

\* the head of the scoring block, or its being skipped
ScoreStart(r) ==
    /\ run[r].pc = "score"
    /\ MayStep(r)
    /\ LET me == run[r] IN
       IF ScoringRuns(me)
       THEN /\ run' = [run EXCEPT ![r] =
                         [me EXCEPT !.pc = "score_loop", !.idx = 1,
                                    !.outcome = "none",
                                    !.yield = me.sid # NoSid]]
            /\ Emit(me.sid, <<Ev("icp_scoring_started", Len(me.leads))>>)
       ELSE /\ run' = [run EXCEPT ![r] = [me EXCEPT !.pc = "save",
                                                    !.outcome = "none"]]
            /\ UNCHANGED <<status_sessions, track>>
    /\ last_poll' = NoPoll
    /\ UNCHANGED <<poolVars, now, config, dbVars, scoring, swept>>

\* what the scoring of one lead leaves in lead["icp_*"]: analyze_profile's
\* result, its own defaults when the oracle fails, or the fallback of
\* generate_leads when analyze_profile raises
ScoreOutcomes == {"scored", "default"}

\* mutant: a lead whose scoring fails ends the scoring loop
ScoreLead_StopsOnFailure(r) ==
    /\ run[r].pc = "score_loop"
    /\ MayStep(r)
    /\ LET me == run[r] IN
       IF me.idx > Len(me.leads)
       THEN /\ run' = [run EXCEPT ![r] =
                         [me EXCEPT !.pc = "save", !.yield = me.sid # NoSid]]
            /\ Emit(me.sid, <<Ev("icp_scoring_completed", Len(me.leads))>>)
       ELSE \E sc \in ScoreOutcomes :
            /\ run' = [run EXCEPT ![r] =
                         [me EXCEPT !.leads[me.idx].score = sc,
                                    !.idx = IF sc = "default"
                                            THEN Len(me.leads) + 1 ELSE @ + 1,
                                    !.yield = me.sid # NoSid]]
            /\ Emit(me.sid, <<Ev("lead_scored", me.idx)>>)
    /\ last_poll' = NoPoll
    /\ UNCHANGED <<poolVars, now, config, dbVars, scoring, swept>>

\* one iteration of the scoring loop, or the end of the loop
ScoreLead(r) ==
    /\ run[r].pc = "score_loop"
    /\ MayStep(r)
    /\ LET me == run[r] IN
       IF me.idx > Len(me.leads)
       THEN /\ run' = [run EXCEPT ![r] =
                         [me EXCEPT !.pc = "save", !.yield = me.sid # NoSid]]
            /\ Emit(me.sid, <<Ev("icp_scoring_completed", Len(me.leads))>>)
       ELSE \E sc \in ScoreOutcomes :
            /\ run' = [run EXCEPT ![r] =
                         [me EXCEPT !.leads[me.idx].score = sc, !.idx = @ + 1,
                                    !.yield = me.sid # NoSid]]
            /\ Emit(me.sid, <<Ev("lead_scored", me.idx)>>)
    /\ last_poll' = NoPoll
    /\ UNCHANGED <<poolVars, now, config, dbVars, scoring, swept>>

\* the status updates around _save_leads_to_db, then the final one
SaveEvents(n) ==
    (IF n > 0
     THEN <<Ev("saving_leads_started", n), Ev("saving_leads_completed", n)>>
     ELSE <<>>) \o <<Ev("generation_completed", n)>>

\* saving (when there are leads: every lead is handed to _save_leads_to_db,
\* which reports failures in its result and never raises; the number it
\* stored is not tracked here), "generation_completed", and, without a
\* session to sleep for, the return
SaveAndComplete(r) ==
    /\ run[r].pc = "save"
    /\ MayStep(r)
    /\ LET me == run[r] IN
       /\ run' = [run EXCEPT ![r] =
                    IF me.sid = NoSid
                    THEN [me EXCEPT !.pc = "returned", !.yield = FALSE,
                                    !.persisted = Len(me.leads),
                                    !.ret = [status |-> "success",
                                             count |-> Len(me.leads)]]
                    ELSE [me EXCEPT !.pc = "finishing", !.yield = TRUE,
                                    !.persisted = Len(me.leads)]]
       /\ Emit(me.sid, SaveEvents(Len(me.leads)))
    /\ last_poll' = NoPoll
    /\ UNCHANGED <<poolVars, now, config, dbVars, scoring, swept>>

\* the return after the last sleep
Finish(r) ==
    /\ run[r].pc = "finishing"
    /\ MayStep(r)
    /\ LET me == run[r] IN
       run' = [run EXCEPT ![r] =
                 [me EXCEPT !.pc = "returned", !.yield = FALSE,
                            !.ret = [status |-> "success",
                                     count |-> Len(me.leads)]]]
    /\ last_poll' = NoPoll
    /\ UNCHANGED <<poolVars, now, config, dbVars, scoring, status_sessions, track, swept>>

(***************************************************************************)
(* The status endpoint and the clock                                       *)
(***************************************************************************)
HasTerminal(history) == \E j \in 1..Len(history) : Terminal(history[j].type)

\* GET /api/generate-leads/status: get_status(session_id)
GetStatusCall(sid) ==
    /\ Quiet
    /\ LET g == get_status(status_sessions, sid, now)
           gone == DOMAIN status_sessions \ DOMAIN g.sessions
       IN /\ status_sessions' = g.sessions
          /\ swept' = swept \cup
                 {[sid |-> x,
                   terminal |-> HasTerminal(status_sessions[x].status_history)] :
                  x \in gone}
          /\ last_poll' =
                 [sid |-> sid, status |-> g.result.status,
                  current |-> g.result.current, active |-> g.result.active,
                  completed |-> g.result.completed,
                  first_after_terminal |->
                      track[sid].terminal_at # {} /\ ~track[sid].read,
                  age |-> IF track[sid].terminal_at = {} THEN 0
                          ELSE now - (CHOOSE t \in track[sid].terminal_at : TRUE)]
          /\ track' = [track EXCEPT ![sid].read = TRUE]
    /\ UNCHANGED <<poolVars, now, config, dbVars, scoring, run>>

\* time passes: between the steps of the event loop, and while a provider
\* call blocks it.  The clock is read for completed sessions only
\* (get_status, _cleanup_old_sessions): `now` counts from the moment some
\* session's completed field is true
Tick ==
    /\ now < MaxTicks * ClockStep
    /\ \E x \in DOMAIN status_sessions : Truthy(status_sessions[x].completed)
    /\ \A o \in RunIds : AtYield(o) \/ InCall(o)
    /\ now' = now + ClockStep
    /\ last_poll' = NoPoll
    /\ UNCHANGED <<poolVars, config, dbVars, scoring, status_sessions, run, track, swept>>

(***************************************************************************)
(* _save_leads_to_db and the store                                         *)
(*                                                                         *)
(* The "leads" table and its uniqueness constraint are defined by the      *)
(* migrations of the repository, outside the source tree; the store is     *)
(* modelled from the specification: insert by record, keyed on the natural *)
(* key (the profile URL), answering success, duplicate or failure per row. *)
(***************************************************************************)
\* the natural keys profiles may carry
NaturalKeys == 1..MaxNaturalKeys

\* how the store may fail on one insert: not at all, with an exception that
\* is no duplicate-key violation, or by answering without data
Faults == {"none", "error", "no_data"}

\* the row map_profile_fields_to_db and the column filter build from a lead:
\* linkedin_url is a column of the table and is passed through
map_profile_fields_to_db(lead) == [linkedin_url |-> lead.linkedin_url]

\* supabase.table("leads").insert(row).execute(): the table it leaves and
\* its answer
StoreInsert(table, row, fault) ==
    CASE fault = "error" -> [table |-> table, answer |-> "error"]
      [] fault = "no_data" -> [table |-> table, answer |-> "no_data"]
      [] \E i \in 1..Len(table) : table[i].linkedin_url = row.linkedin_url ->
            [table |-> table, answer |-> "duplicate_key"]
      [] OTHER -> [table |-> Append(table, row), answer |-> "inserted"]

\* mutant: a duplicate-key violation is counted as a failure
SaveOutcome_DuplicateIsFailure(answer) ==
    CASE answer = "inserted" -> "successful"
      [] OTHER -> "failed"

\* mutant: an answer without data is not counted at all
SaveOutcome_NoDataUncounted(answer) ==
    CASE answer = "inserted" -> "successful"
      [] answer = "duplicate_key" -> "duplicates"
      [] answer = "no_data" -> "skipped"
      [] OTHER -> "failed"

\* the counter one insert increments: `if result.data` and the except branch
SaveOutcome(answer) ==
    CASE answer = "inserted" -> "successful"
      [] answer = "no_data" -> "failed"
      [] answer = "duplicate_key" -> "duplicates"
      [] OTHER -> "failed"

NoStats == [total |-> 0, successful |-> 0, duplicates |-> 0, failed |-> 0]

\* successful_inserts += 1, duplicate_leads += 1 or failed_inserts += 1
Count(stats, outcome) ==
    IF outcome \in {"successful", "duplicates", "failed"}
    THEN [stats EXCEPT ![outcome] = @ + 1]
    ELSE stats

\* `for lead in leads`: the table, the stats and (observer) the attempts made
RECURSIVE SaveLoop(_, _, _, _, _)
SaveLoop(table, leads, faults, stats, attempts) ==
    IF leads = <<>>
    THEN [table |-> table, stats |-> stats, attempts |-> attempts]
    ELSE LET ins == StoreInsert(table, map_profile_fields_to_db(Head(leads)),
                                Head(faults))
             outcome == SaveOutcome(ins.answer)
         IN SaveLoop(ins.table, Tail(leads), Tail(faults), Count(stats, outcome),
                     Append(attempts,
                            [linkedin_url |-> Head(leads).linkedin_url,
                             fault |-> Head(faults), outcome |-> outcome]))

\* _save_leads_to_db: the table it leaves and the dict it returns
save_leads_to_db(table, leads, faults) ==
    IF leads = <<>>
    THEN [table |-> table, status |-> "warning", has_stats |-> FALSE,
          stats |-> NoStats, attempts |-> <<>>]
    ELSE LET l == SaveLoop(table, leads, faults,
                           [NoStats EXCEPT !.total = Len(leads)], <<>>)
         IN [table |-> l.table,
             status |-> IF l.stats.successful > 0 THEN "success" ELSE "warning",
             has_stats |-> TRUE, stats |-> l.stats, attempts |-> l.attempts]

\* get_valid_db_columns
get_valid_db_columns ==
    {"id", "linkedin_url", "full_name", "first_name", "last_name", "headline",
     "about", "email", "email_address", "email_status", "phone_number",
     "job_title", "seniority", "departments", "subdepartments", "functions",
     "work_experience_months", "employment_history", "location", "city",
     "state", "country", "company_name", "company_website", "company_domain",
     "company_linkedin", "company_twitter", "company_facebook", "company_phone",
     "company_size", "company_industry", "company_founded_year",
     "company_growth_6month", "company_growth_12month", "company_growth_24month",
     "photo_url", "experience", "intent_strength", "show_intent",
     "email_domain_catchall", "revealed_for_current_team", "icp_score",
     "icp_percentage", "icp_grade", "icp_breakdown", "send_email_status",
     "scraping_status", "error_message", "scraped_at", "created_at",
     "updated_at"}

\* field_mapping.get(key, key) of map_profile_fields_to_db
db_field(key) ==
    CASE key = "linkedinUrl" -> "linkedin_url"
      [] key = "fullName" -> "full_name"
      [] key = "createdAt" -> "created_at"
      [] OTHER -> key

\* the keys a provider may put on a profile besides its linkedinUrl: one
\* mapped to a column and one that is not in the schema
ExtraProfileKeys == {"fullName", "connections"}
\* params.get("user_id")
NoUser == "none"
UserIds == {NoUser, "u1"}

\* the keys of clean_profile
MappedKeys(profile_keys) == {db_field(k) : k \in profile_keys}

\* the keys of filtered_profile when it is handed to insert()
RecordKeys(profile_keys, user_id) ==
    (MappedKeys(profile_keys) \cap get_valid_db_columns)
       \cup {"id", "created_at", "updated_at"}
       \cup (IF user_id # NoUser THEN {"user_id"} ELSE {})

\* skipped_fields after a lead with these keys
SkippedFields(profile_keys) == MappedKeys(profile_keys) \ get_valid_db_columns

\* observer: no _save_leads_to_db call yet
NoSave ==
    [calls |-> 0, leads |-> <<>>, before |-> <<>>, status |-> "none",
     has_stats |-> FALSE, stats |-> NoStats, attempts |-> <<>>,
     user_id |-> NoUser, profile_keys |-> {"linkedinUrl"}, record_keys |-> {},
     skipped_fields |-> {}]

\* the batches of up to n leads
Batches(n) ==
    UNION {[1..k -> [linkedin_url : NaturalKeys]] : k \in 0..n}

\* one _save_leads_to_db call on a batch, the store failing as it may; the
\* profiles carry the keys, and the call the user id, that the requests of
\* this service do (last_save.profile_keys, last_save.user_id), and
\* record_keys are the keys of the records handed to insert()
SaveLeadsCall ==
    /\ last_save.calls < MaxSaves
    /\ \E leads \in Batches(MaxBatch) :
       \E faults \in [1..Len(leads) -> Faults] :
          LET res == save_leads_to_db(leads_table, leads, faults)
              profile_keys == last_save.profile_keys
              user_id == last_save.user_id
          IN
          /\ leads_table' = res.table
          /\ last_save' = [calls |-> last_save.calls + 1, leads |-> leads,
                           before |-> leads_table, status |-> res.status,
                           has_stats |-> res.has_stats, stats |-> res.stats,
                           attempts |-> res.attempts,
                           user_id |-> user_id, profile_keys |-> profile_keys,
                           record_keys |->
                               IF leads = <<>> THEN {}
                               ELSE RecordKeys(profile_keys, user_id),
                           skipped_fields |->
                               IF leads = <<>> THEN {}
                               ELSE SkippedFields(profile_keys)]
    /\ UNCHANGED <<poolVars, now, config, status_sessions, run, last_poll, track,
                   swept, scoring>>

(***************************************************************************)
(* ICP scoring: AIICPScorer.analyze_profile and the scoring step of        *)
(* generate_leads.  Scores are counted in hundredths of a point and        *)
(* percentages in hundredths of a percent, the resolution of round(x, 2).  *)
(***************************************************************************)
Pt == 100

\* a value of the oracle's JSON object: a number, another JSON value, or a
\* field that is not there
Num(n) == [kind |-> "num", v |-> n]
Text == [kind |-> "text", v |-> 0]
Missing == [kind |-> "missing", v |-> 0]

Min(a, b) == IF a < b THEN a ELSE b
Max(a, b) == IF a > b THEN a ELSE b

\* `if field not in scores: scores[field] = 5.0`
DefaultIfMissing(x) == IF x = Missing THEN Num(5 * Pt) ELSE x

\* "Ensure scores are numbers between 0 and 10": a non-number or a number out
\* of range becomes 5.0, then max(0, min(10, float(score)))
EnsureScore(x) ==
    LET score == IF x.kind # "num" \/ x.v < 0 \/ x.v > 10 * Pt
                 THEN 5 * Pt ELSE x.v
    IN Max(0, Min(10 * Pt, score))

\* the field checks of analyze_profile on the parsed object
ValidatedScores(raw) ==
    LET size == IF raw.company_maturity_fit # Missing /\ raw.company_size_fit = Missing
                THEN raw.company_maturity_fit ELSE raw.company_size_fit
    IN [industry_fit |-> EnsureScore(DefaultIfMissing(raw.industry_fit)),
        role_fit |-> EnsureScore(DefaultIfMissing(raw.role_fit)),
        company_size_fit |-> EnsureScore(DefaultIfMissing(size)),
        decision_maker |-> EnsureScore(DefaultIfMissing(raw.decision_maker)),
        total_score |-> EnsureScore(DefaultIfMissing(raw.total_score))]

\* the grade analyze_profile gives a percentage
InlineGrade(score_percentage) ==
    IF score_percentage >= 80 * Pt THEN "A+"
    ELSE IF score_percentage >= 70 * Pt THEN "A"
    ELSE IF score_percentage >= 60 * Pt THEN "B+"
    ELSE IF score_percentage >= 50 * Pt THEN "B"
    ELSE IF score_percentage >= 40 * Pt THEN "C+"
    ELSE IF score_percentage >= 30 * Pt THEN "C"
    ELSE "D"

\* AIICPScorer._calculate_grade
calculate_grade(score_percentage) ==
    IF score_percentage >= 90 * Pt THEN "A+"
    ELSE IF score_percentage >= 80 * Pt THEN "A"
    ELSE IF score_percentage >= 70 * Pt THEN "B+"
    ELSE IF score_percentage >= 60 * Pt THEN "B"
    ELSE IF score_percentage >= 50 * Pt THEN "C+"
    ELSE IF score_percentage >= 40 * Pt THEN "C"
    ELSE IF score_percentage >= 30 * Pt THEN "D+"
    ELSE "D"

\* the weights of the configuration analyze_profile fetches
ConfigWeights ==
    [industry_fit |-> 30, role_fit |-> 30, company_size_fit |-> 20,
     decision_maker |-> 20]

\* the result returned without a client, on a JSON error and on an exception
DefaultResult(why) ==
    [kind |-> why, icp_score |-> 50 * Pt, icp_percentage |-> 50 * Pt,
     icp_grade |-> "C",
     icp_breakdown |-> [industry_fit |-> 5 * Pt, role_fit |-> 5 * Pt,
                        company_size_fit |-> 5 * Pt, decision_maker |-> 5 * Pt]]

\* the result computed from the parsed object
NormalResult(raw) ==
    LET scores == ValidatedScores(raw)
        total_score == scores.total_score
        score_percentage == Min(100 * Pt, total_score * 10)
    IN [kind |-> "normal", icp_score |-> total_score,
        icp_percentage |-> score_percentage,
        icp_grade |-> InlineGrade(score_percentage),
        icp_breakdown |-> [industry_fit |-> scores.industry_fit,
                           role_fit |-> scores.role_fit,
                           company_size_fit |-> scores.company_size_fit,
                           decision_maker |-> scores.decision_maker]]

\* what a call of analyze_profile can meet: no client, a failing request or
\* an answer that is not an object, an answer that is not JSON, a JSON
\* object, and an exception handler that itself fails
Oracles == {"no_client", "exception", "json_error", "object", "raises"}

NoRaw ==
    [industry_fit |-> Missing, role_fit |-> Missing, company_size_fit |-> Missing,
     company_maturity_fit |-> Missing, decision_maker |-> Missing,
     total_score |-> Missing]

NoResult ==
    [kind |-> "none", icp_score |-> 0, icp_percentage |-> 0, icp_grade |-> "",
     icp_breakdown |-> [industry_fit |-> 0, role_fit |-> 0,
                        company_size_fit |-> 0, decision_maker |-> 0]]

\* analyze_profile; NoResult stands for no return (the call raised)
analyze_profile(oracle, raw) ==
    CASE oracle = "no_client" -> DefaultResult("no_client")
      [] oracle = "json_error" -> DefaultResult("json_error")
      [] oracle = "exception" -> DefaultResult("exception")
      [] oracle = "object" -> NormalResult(raw)
      [] OTHER -> NoResult

\* the score fields generate_leads writes on the lead: those of the analysis,
\* or its own fallback when the call raised
LeadScore(oracle, result) ==
    IF oracle = "raises"
    THEN [kind |-> "fallback", icp_score |-> 50 * Pt, icp_percentage |-> 50 * Pt,
          icp_grade |-> "C"]
    ELSE [kind |-> result.kind, icp_score |-> result.icp_score,
          icp_percentage |-> result.icp_percentage,
          icp_grade |-> result.icp_grade]

NoLeadScore == [kind |-> "none", icp_score |-> 0, icp_percentage |-> 0, icp_grade |-> ""]

NoScoring ==
    [stage |-> "idle", oracle |-> "none", raw |-> NoRaw, result |-> NoResult,
     lead |-> NoLeadScore]

\* the numbers an oracle may report as the total: the ends of the range, a
\* value beyond either end, and each grade threshold with the value just
\* below it
GradeSteps == 3..10
TotalValues ==
    {-1, 0, 10 * Pt + 1} \cup {t * Pt : t \in GradeSteps}
       \cup {t * Pt - 1 : t \in GradeSteps}
TotalInputs == {Missing, Text} \cup {Num(n) : n \in TotalValues}

\* the sub-scores an oracle may report
SubInputs == {Missing, Text, Num(0), Num(5 * Pt), Num(10 * Pt + 1)}
MaturityInputs == {Missing, Num(7 * Pt)}

RawResponses ==
    [industry_fit : SubInputs, role_fit : SubInputs, company_size_fit : SubInputs,
     company_maturity_fit : MaturityInputs, decision_maker : SubInputs,
     total_score : TotalInputs]

\* generate_leads line 678: analyze_profile is called for the lead
AnalyzeProfileCall ==
    /\ scoring.stage = "called"
    /\ scoring' = [scoring EXCEPT
                     !.stage = "analyzed",
                     !.result = analyze_profile(scoring.oracle, scoring.raw)]
    /\ UNCHANGED <<poolVars, now, config, status_sessions, run, last_poll, track,
                   swept, dbVars>>

\* generate_leads lines 679-690: the score fields are written on the lead
ScoreAssign ==
    /\ scoring.stage = "analyzed"
    /\ scoring' = [scoring EXCEPT
                     !.stage = "assigned",
                     !.lead = LeadScore(scoring.oracle, scoring.result)]
    /\ UNCHANGED <<poolVars, now, config, status_sessions, run, last_poll, track,
                   swept, dbVars>>

(***************************************************************************)
(* SpecScore: one lead scored, for every answer of the oracle.             *)
(***************************************************************************)
ScoreInit ==
    /\ InitPool(0)
    /\ now = 0
    /\ config = [openai |-> TRUE, google |-> TRUE]
    /\ status_sessions = [x \in {} |-> NewSession]
    /\ run = [r \in RunIds |-> IdleRun]
    /\ last_poll = NoPoll
    /\ track = [x \in SessionIds |-> NewTrack]
    /\ swept = {}
    /\ leads_table = <<>>
    /\ last_save = NoSave
    /\ \E oracle \in Oracles :
       \E raw \in (IF oracle = "object" THEN RawResponses ELSE {NoRaw}) :
          scoring = [NoScoring EXCEPT !.stage = "called", !.oracle = oracle,
                                      !.raw = raw]

ScoreNext == AnalyzeProfileCall \/ ScoreAssign

SpecScore == ScoreInit /\ [][ScoreNext]_vars

(***************************************************************************)
(* SpecRun: one generate_leads run with a polling client.  The pool starts *)
(* fresh, or with every key marked exhausted today by earlier runs.        *)
(***************************************************************************)
InitIdle ==
    /\ now = 0
    /\ status_sessions = [x \in {} |-> NewSession]
    /\ run = [r \in RunIds |-> IdleRun]
    /\ last_poll = NoPoll
    /\ track = [x \in SessionIds |-> NewTrack]
    /\ swept = {}
    /\ leads_table = <<>>
    /\ last_save = NoSave
    /\ scoring = NoScoring

RunInit ==
    /\ \E exh \in {{}, Keys} : InitPoolWith(0, exh)
    /\ InitIdle
    /\ \E oa \in BOOLEAN, g \in BOOLEAN : config = [openai |-> oa, google |-> g]

RunStep(r) ==
    \/ Start(r)
    \/ Dispatch(r)
    \/ ApolloAcquire(r)
    \/ ApolloCall(r)
    \/ ApolloProcess(r)
    \/ GoogleSearch(r)
    \/ EnrichStart(r)
    \/ EnrichItem(r)
    \/ EnrichAcquire(r)
    \/ EnrichCall(r)
    \/ ScoreStart(r)
    \/ ScoreLead(r)
    \/ SaveAndComplete(r)
    \/ Finish(r)

Poll == \E sid \in SessionIds : GetStatusCall(sid)

RunNext == RunStep("r1") \/ Poll \/ Tick

SpecRun == RunInit /\ [][RunNext]_vars

\* the same, the event loop resuming the run's task whenever it can go on
SpecRunFair == SpecRun /\ WF_vars(RunStep("r1"))

(***************************************************************************)
(* SpecQuota: one APIKeyQueue, used from the day it was built, no key      *)
(* ever marked exhausted.                                                  *)
(***************************************************************************)
QuotaInit == InitPool(0) /\ InitIdle /\ config = [openai |-> TRUE, google |-> TRUE]

QuotaGetNextKey ==
    /\ calls_on_day <= NumKeys * DailyCap + 1
    /\ GetNextKeyCall

QuotaNext == QuotaGetNextKey \/ AdvanceDay

SpecQuota == QuotaInit /\ [][QuotaNext]_vars

(***************************************************************************)
(* SpecPool: the pool as LeadService uses it, with keys marked exhausted,  *)
(* starting fresh or one acquisition per key short of the cap.             *)
(***************************************************************************)
PoolInit ==
    /\ \E u \in {0, DailyCap - 1} : InitPool(u)
    /\ InitIdle
    /\ config = [openai |-> TRUE, google |-> TRUE]

PoolGetNextKey == ops < MaxOps /\ GetNextKeyCall

PoolGetNextAvailableKey == ops < MaxOps /\ GetNextAvailableKeyCall

PoolMarkKeyExhausted == ops < MaxOps /\ \E key \in Keys : MarkKeyExhaustedCall(key)

PoolNext ==
    \/ PoolGetNextKey
    \/ PoolGetNextAvailableKey
    \/ PoolMarkKeyExhausted
    \/ AdvanceDay

SpecPool == PoolInit /\ [][PoolNext]_vars

(***************************************************************************)
(* SpecTracker: the status tracker alone, driven by any sequence of        *)
(* session creations, emits, polls and clock steps.  Every emit carries    *)
(* its emission number in `count`; the observer keeps the log of emits and *)
(* the snapshots the polls returned.                                       *)
(***************************************************************************)
\* the types of the status dicts emitted after "started": an update without
\* and one with a "completed" key, and the two completion types
TrackerTypes == {"progress", "profile_enriched", "generation_completed", "error"}

\* the status dict number n of type t
TrackerEvent(t, n) ==
    IF t = "profile_enriched" THEN EvCompleted(t, n, 1) ELSE Ev(t, n)

\* observer: the emits made for a session id and the snapshots polled for it
NewTrackerTrack == [terminal_at |-> {}, read |-> FALSE, log |-> <<>>, polled |-> <<>>]

TrackerInit ==
    /\ InitPool(0)
    /\ now = 0
    /\ config = [openai |-> TRUE, google |-> TRUE]
    /\ status_sessions = [x \in {} |-> NewSession]
    /\ run = [r \in RunIds |-> IdleRun]
    /\ last_poll = NoPoll
    /\ track = [x \in SessionIds |-> NewTrackerTrack]
    /\ swept = {}
    /\ leads_table = <<>>
    /\ last_save = NoSave
    /\ scoring = NoScoring

\* observer: one more emit in the log of sid
TrackerLog(sid, ev) ==
    [track EXCEPT ![sid].log = Append(@, ev),
                  ![sid].terminal_at =
                      IF sid \in DOMAIN status_sessions' /\ Terminal(ev.type)
                      THEN {now} ELSE @,
                  ![sid].read =
                      IF sid \in DOMAIN status_sessions' /\ Terminal(ev.type)
                      THEN FALSE ELSE @]

\* generate_leads given a session id: create_status_session and "started"
\* (a client may pass an id that is already tracked: the session is replaced)
TrackerCreate ==
    \E sid \in SessionIds :
        LET ev == TrackerEvent("started", Len(track[sid].log) + 1) IN
        /\ Len(track[sid].log) < MaxEmits
        /\ status_sessions' =
               emit_status(create_status_session(status_sessions, sid), sid, ev)
        /\ track' = TrackerLog(sid, ev)
        /\ last_poll' = NoPoll
        /\ UNCHANGED <<poolVars, now, config, dbVars, scoring, run, swept>>

\* one emit_status call, for a tracked session or not
TrackerEmit ==
    \E sid \in SessionIds, t \in TrackerTypes :
        LET ev == TrackerEvent(t, Len(track[sid].log) + 1) IN
        /\ Len(track[sid].log) < MaxEmits
        /\ status_sessions' = emit_status(status_sessions, sid, ev)
        /\ track' = TrackerLog(sid, ev)
        /\ last_poll' = NoPoll
        /\ UNCHANGED <<poolVars, now, config, dbVars, scoring, run, swept>>

\* GET /api/generate-leads/status, the returned snapshot kept by the observer
TrackerGetStatus ==
    \E sid \in SessionIds :
        LET g == get_status(status_sessions, sid, now)
            gone == DOMAIN status_sessions \ DOMAIN g.sessions
        IN /\ Len(track[sid].polled) < MaxPolls
           /\ status_sessions' = g.sessions
           /\ swept' = swept \cup
                  {[sid |-> x,
                    terminal |-> HasTerminal(status_sessions[x].status_history)] :
                   x \in gone}
           /\ last_poll' =
                  [sid |-> sid, status |-> g.result.status,
                   current |-> g.result.current, active |-> g.result.active,
                   completed |-> g.result.completed,
                   first_after_terminal |->
                       track[sid].terminal_at # {} /\ ~track[sid].read,
                   age |-> IF track[sid].terminal_at = {} THEN 0
                           ELSE now - (CHOOSE t \in track[sid].terminal_at : TRUE)]
           /\ track' = [track EXCEPT
                          ![sid].read = TRUE,
                          ![sid].polled = IF g.result.status = "found"
                                          THEN @ \o g.result.current ELSE @]
           /\ UNCHANGED <<poolVars, now, config, dbVars, scoring, run>>

TrackerNext == TrackerCreate \/ TrackerEmit \/ TrackerGetStatus \/ Tick

SpecTracker == TrackerInit /\ [][TrackerNext]_vars

(***************************************************************************)
(* SpecSave: _save_leads_to_db called on any batches, one call after the   *)
(* other, on a store that starts empty.                                    *)
(***************************************************************************)
SaveInit == InitPool(0) /\ InitIdle /\ config = [openai |-> TRUE, google |-> TRUE]

SaveNext == SaveLeadsCall

SpecSave == SaveInit /\ [][SaveNext]_vars

(***************************************************************************)
(* SpecRecord: _save_leads_to_db called as generate_leads calls it, for    *)
(* profiles with any of the keys and with or without a user id.            *)
(***************************************************************************)
RecordInit ==
    /\ InitPool(0)
    /\ now = 0
    /\ config = [openai |-> TRUE, google |-> TRUE]
    /\ status_sessions = [x \in {} |-> NewSession]
    /\ run = [r \in RunIds |-> IdleRun]
    /\ last_poll = NoPoll
    /\ track = [x \in SessionIds |-> NewTrack]
    /\ swept = {}
    /\ leads_table = <<>>
    /\ scoring = NoScoring
    /\ \E extra \in SUBSET ExtraProfileKeys, user_id \in UserIds :
          last_save = [NoSave EXCEPT !.profile_keys = @ \cup extra,
                                     !.user_id = user_id]

RecordNext == SaveLeadsCall

SpecRecord == RecordInit /\ [][RecordNext]_vars

(***************************************************************************)
(* SpecClose: one generate_leads run with a polling client, and            *)
(* close_status_session called on the run's session while it is in flight. *)
(* The event loop resumes the run's task whenever it can go on.            *)
(***************************************************************************)
InFlight(r) == run[r].created /\ run[r].pc \notin {"idle", "returned"}

CloseSession ==
    \E sid \in SessionIds :
        /\ Quiet
        /\ \E r \in RunIds : InFlight(r) /\ run[r].sid = sid
        /\ sid \in DOMAIN status_sessions
        /\ status_sessions' = close_status_session(status_sessions, sid)
        /\ last_poll' = NoPoll
        /\ UNCHANGED <<poolVars, now, config, dbVars, scoring, run, track, swept>>

CloseNext == RunStep("r1") \/ Poll \/ CloseSession

SpecClose == RunInit /\ [][CloseNext]_vars /\ WF_vars(RunStep("r1"))

(***************************************************************************)
(* SpecShared: two apollo generate_leads runs started by the endpoint as   *)
(* background tasks on the one event loop, sharing the service's pool,     *)
(* while days pass.  The pool starts fresh or one call below the cap.      *)
(***************************************************************************)
SharedInit ==
    /\ \E u \in {0, DailyCap - 1} : InitPool(u)
    /\ InitIdle
    /\ config = [openai |-> FALSE, google |-> TRUE]

\* the two requests: apollo searches with valid params and a session id
SharedStart(r) ==
    /\ Start(r)
    /\ run'[r].method = "apollo"
    /\ run'[r].pc = "dispatch"
    /\ run'[r].sid # NoSid

SharedStep(r) ==
    \/ SharedStart(r)
    \/ Dispatch(r)
    \/ ApolloAcquire(r)
    \/ ApolloCall(r)
    \/ ApolloProcess(r)
    \/ ScoreStart(r)
    \/ SaveAndComplete(r)
    \/ Finish(r)

SharedNext == (\E r \in RunIds : SharedStep(r)) \/ AdvanceDay

SpecShared == SharedInit /\ [][SharedNext]_vars

(***************************************************************************)
(* Claims about the credential pool                                        *)
(***************************************************************************)
\* C2: after mark_key_exhausted(k) no get_next_available_key returns k until
\* the next daily reset, and after the next calendar-day rollover k can be
\* acquired again if it is under its cap: a call never returns a key that
\* was marked on the date of the call, and it comes back with None only
\* when every key was marked on that date or is at its cap.
C2_ExhaustedUntilReset ==
    last.op = "get_next_available_key" =>
        /\ last.ret # None => last.ret \notin last.marked_today
        /\ last.ret = None =>
               \A k \in Keys :
                   k \in last.marked_today \/ last.used[k] >= DailyCap

\* C3: N keys, cap C, nothing exhausted: the first N*C calls of get_next_key
\* on one day each return a key, the next call returns None, and the first
\* call after the date advanced returns a key again.
C3_QuotaThenRollover ==
    last.op = "get_next_key" =>
        /\ calls_on_day <= NumKeys * DailyCap => last.ret # None
        /\ calls_on_day = NumKeys * DailyCap + 1 => last.ret = None
        /\ last.reset => last.ret # None

\* the pool ran dry yesterday and the first call of today got a key
C3_Witness ==
    /\ last.op = "get_next_key"
    /\ today > 0
    /\ (today - 1) \in none_days
    /\ calls_on_day = 1
    /\ last.reset
    /\ last.ret # None

\* C4: round-robin fairness: when N consecutive get_next_key calls each
\* return a key (nothing exhausted, the pool not run dry), the N keys are
\* distinct.
C4_RoundRobin ==
    (Len(recent) = NumKeys /\ \A i \in 1..NumKeys : recent[i] # None) =>
        \A i, j \in 1..NumKeys : i # j => recent[i] # recent[j]

\* N consecutive acquisitions, the last of them after a day rollover
C4_Witness ==
    /\ Len(recent) = NumKeys
    /\ \A i \in 1..NumKeys : recent[i] # None
    /\ last.op = "get_next_key"
    /\ today > 0
    /\ calls_on_day >= 1

\* C5: get_next_key returns a key only if it is not exhausted and was under
\* its cap when called, and returns None only when no key is both.
C5_OnlyUsableKeys ==
    last.op = "get_next_key" =>
        /\ last.ret # None =>
               last.ret \notin last.exh /\ last.used[last.ret] < DailyCap
        /\ last.ret = None =>
               \A k \in Keys : k \in last.exh \/ last.used[k] >= DailyCap

\* None returned with one key exhausted and another at its cap
C5_Witness ==
    /\ last.op = "get_next_key"
    /\ last.ret = None
    /\ \E k \in Keys : k \in last.exh /\ last.used[k] < DailyCap
    /\ \E k \in Keys : k \notin last.exh /\ last.used[k] >= DailyCap

(***************************************************************************)
(* Claims about the provider adapters, generate_leads and the tracker,     *)
(* checked under SpecRun.                                                  *)
(***************************************************************************)
\* C1: when no attempt of a search succeeded, _search_apollo_leads and
\* enrich_profile_with_apify return an empty list.
C1_NoSuccessEmptyList ==
    \A r \in RunIds :
        (run[r].sret.fn # "none" /\ ~run[r].sret.any_ok) => run[r].sret.size = 0

\* C6: a generate_leads call whose method, jobTitles or locations is missing
\* or empty has returned status "error" and has done nothing else: no
\* session, no event, no credential acquired, no provider call, nothing
\* persisted.
C6_InvalidParamsNothingRuns ==
    \A r \in RunIds :
        (run[r].pc # "idle"
           /\ (run[r].method = "" \/ ~run[r].job_titles \/ ~run[r].locations)) =>
            /\ run[r].pc = "returned"
            /\ run[r].ret.status = "error"
            /\ ~run[r].created
            /\ DOMAIN status_sessions = {}
            /\ swept = {}
            /\ ~run[r].acquired
            /\ ~run[r].called
            /\ run[r].sret = NoSearch
            /\ run[r].persisted = 0
            /\ token_queue.daily_limits = [k \in Keys |-> 0]

\* a call with a session id, a method and job titles but no locations returned
C6_Witness ==
    \E r \in RunIds :
        /\ run[r].pc = "returned"
        /\ run[r].sid # NoSid
        /\ run[r].method = "apollo"
        /\ run[r].job_titles
        /\ ~run[r].locations

\* C7: whenever a generate_leads call that created a tracked session has
\* returned, the session has a terminal event, is completed and not active.
C7_ReturnedSessionTerminal ==
    \A r \in RunIds :
        (run[r].pc = "returned" /\ run[r].created
           /\ run[r].sid \in DOMAIN status_sessions) =>
            LET s == status_sessions[run[r].sid] IN
            /\ HasTerminal(s.status_history)
            /\ Truthy(s.completed)
            /\ ~s.active

\* the events of the end-to-end scenario, by the names the code emits
C8_Expected ==
    <<"started", "profiles_found", "icp_scoring_started">>
      \o [j \in 1..5 |-> "lead_scored"]
      \o <<"icp_scoring_completed", "saving_leads_started",
           "saving_leads_completed", "generation_completed">>

\* length of the longest prefix of want found, in order, in the types of h
RECURSIVE C8_Matched(_, _)
C8_Matched(h, want) ==
    IF h = <<>> \/ want = <<>> THEN 0
    ELSE IF Head(h).type = Head(want)
         THEN 1 + C8_Matched(Tail(h), Tail(want))
         ELSE C8_Matched(Tail(h), want)

\* C8: an apollo run with a session id whose provider returned 5 profiles has
\* emitted, in order, started, profiles_found (5), scoring_started,
\* lead_scored five times, scoring_completed, saving_started,
\* saving_completed, generation_completed, and returns count = 5.
C8_EndToEndEvents ==
    \A r \in RunIds :
        (run[r].pc = "returned" /\ run[r].method = "apollo" /\ run[r].created
           /\ run[r].results = "profiles" /\ run[r].nres = 5
           /\ run[r].sid \in DOMAIN status_sessions) =>
            LET h == status_sessions[run[r].sid].status_history IN
            /\ C8_Matched(h, C8_Expected) = Len(C8_Expected)
            /\ \E j \in 1..Len(h) : h[j].type = "profiles_found" /\ h[j].count = 5
            /\ run[r].ret.count = 5

\* C9: the first get_status for a session after its terminal event, made
\* more than the TTL after that event, returns the not-found result.
C9_FirstReadAfterTTLNotFound ==
    (last_poll.first_after_terminal /\ last_poll.age > SessionTTL) =>
        last_poll.status = "not_found"

\* C10: _cleanup_old_sessions removes only sessions for which a terminal
\* event has been emitted.
C10_EvictOnlyTerminal ==
    \A e \in swept : e.terminal

\* C11: once a generation_completed or error event has been emitted for a
\* session, the session is not active, is completed, and has a completion
\* timestamp recorded.
C11_TerminalEmitStamps ==
    \A x \in DOMAIN status_sessions :
        HasTerminal(status_sessions[x].status_history) =>
            /\ ~status_sessions[x].active
            /\ status_sessions[x].completed = 1
            /\ status_sessions[x].completion_timestamp # {}

(***************************************************************************)
(* Claims about the status tracker, checked under SpecTracker.             *)
(***************************************************************************)
\* C12: the snapshots returned by the successive get_status calls for one
\* session id are emitted events, in emission order: a later poll never
\* returns an event emitted before the one an earlier poll returned.
C12_PollsInEmissionOrder ==
    \A sid \in SessionIds :
        LET p == track[sid].polled
            l == track[sid].log
        IN /\ \A i \in 1..Len(p) :
                  p[i].count \in 1..Len(l) /\ l[p[i].count] = p[i]
           /\ \A i, j \in 1..Len(p) : i < j => p[i].count <= p[j].count

\* three polls, each returning a later event than the one before
C12_Witness ==
    \E sid \in SessionIds :
        LET p == track[sid].polled
        IN Len(p) = 3 /\ p[1].count < p[2].count /\ p[2].count < p[3].count

(***************************************************************************)
(* Claims about persistence, checked under SpecSave.                       *)
(***************************************************************************)
\* C13: a record saved a second time, in the same batch or by a later call,
\* is counted as a duplicate and not as successful, the first insert of it
\* is counted as successful, and the store holds exactly one row for its
\* natural key.
C13_SaveIdempotent ==
    LET a == last_save.attempts
        RowsOf(k) == {i \in 1..Len(leads_table) : leads_table[i].linkedin_url = k}
        StoredBefore(k) ==
            \E i \in 1..Len(last_save.before) : last_save.before[i].linkedin_url = k
    IN /\ \A j \in 1..Len(a) :
              a[j].fault = "none" =>
                  a[j].outcome =
                      IF \/ StoredBefore(a[j].linkedin_url)
                         \/ \E i \in 1..(j - 1) :
                               /\ a[i].linkedin_url = a[j].linkedin_url
                               /\ a[i].outcome = "successful"
                      THEN "duplicates" ELSE "successful"
       /\ last_save.stats.successful =
              Cardinality({j \in 1..Len(a) : a[j].outcome = "successful"})
       /\ last_save.stats.duplicates =
              Cardinality({j \in 1..Len(a) : a[j].outcome = "duplicates"})
       /\ \A j \in 1..Len(a) :
              a[j].outcome \in {"successful", "duplicates"} =>
                  Cardinality(RowsOf(a[j].linkedin_url)) = 1
       /\ \A k \in NaturalKeys : Cardinality(RowsOf(k)) <= 1

\* a second call saves a record of the first call again, then a new record
\* twice
C13_Witness ==
    LET a == last_save.attempts
    IN /\ last_save.calls = 2
       /\ Len(last_save.before) = 1
       /\ Len(a) = 3
       /\ a[1].linkedin_url = last_save.before[1].linkedin_url
       /\ a[1].outcome = "duplicates"
       /\ a[2].outcome = "successful"
       /\ a[3].linkedin_url = a[2].linkedin_url
       /\ a[3].outcome = "duplicates"
       /\ Len(leads_table) = 2

\* C14: _save_leads_to_db attempts every lead of the batch once, in order,
\* whatever became of the earlier ones, each attempt increments exactly one
\* of successful, duplicates and failed, and the stats returned satisfy
\* total = successful + duplicates + failed = number of leads.
C14_EveryLeadCountedOnce ==
    LET a == last_save.attempts
        st == last_save.stats
        N(o) == Cardinality({j \in 1..Len(a) : a[j].outcome = o})
    IN last_save.leads # <<>> =>
           /\ last_save.has_stats
           /\ Len(a) = Len(last_save.leads)
           /\ \A j \in 1..Len(a) :
                  /\ a[j].linkedin_url = last_save.leads[j].linkedin_url
                  /\ a[j].outcome \in {"successful", "duplicates", "failed"}
           /\ st.successful = N("successful")
           /\ st.duplicates = N("duplicates")
           /\ st.failed = N("failed")
           /\ st.total = Len(last_save.leads)
           /\ st.total = st.successful + st.duplicates + st.failed

\* a batch whose first two inserts fail, each in its own way, and whose third
\* is stored
C14_Witness ==
    LET a == last_save.attempts
    IN /\ Len(a) = 3
       /\ a[1].fault = "error"
       /\ a[2].fault = "no_data"
       /\ a[3].outcome = "successful"
       /\ last_save.stats.failed = 2

(***************************************************************************)
(* Further claims about generate_leads and get_status, checked under       *)
(* SpecRun.                                                                *)
(***************************************************************************)
\* the lead_scored events of a history, by the lead they report
C15_Scored(h) ==
    {h[j].count : j \in {i \in 1..Len(h) : h[i].type = "lead_scored"}}

C16_NoKeyZeroResults ==
    \A r \in RunIds :
        (run[r].pc = "returned" /\ run[r].got_none) =>
            /\ run[r].ret = [status |-> "success", count |-> 0]
            /\ (run[r].created /\ run[r].sid \in DOMAIN status_sessions) =>
                   LET s == status_sessions[run[r].sid] IN
                   /\ \E j \in 1..Len(s.status_history) :
                          s.status_history[j].type = "generation_completed"
                   /\ Truthy(s.completed)

\* C16 amended: whenever a returned generate_leads call had
\* get_next_available_key return None, the call that got None contributed no
\* result and the run was not aborted: the summary has status success and
\* counts the leads collected before the pool ran dry, which is 0 for the
\* apollo method and whenever no credential was acquired at all, and the
\* session it created (as long as it is registered) carries
\* generation_completed and is completed and not active.
C16_NoKeyDegrades ==
    \A r \in RunIds :
        (run[r].pc = "returned" /\ run[r].got_none) =>
            /\ run[r].ret = [status |-> "success", count |-> Len(run[r].leads)]
            /\ (run[r].method = "apollo" \/ ~run[r].called) => run[r].ret.count = 0
            /\ (run[r].created /\ run[r].sid \in DOMAIN status_sessions) =>
                   LET s == status_sessions[run[r].sid] IN
                   /\ \E j \in 1..Len(s.status_history) :
                          s.status_history[j] = Ev("generation_completed", run[r].ret.count)
                   /\ Truthy(s.completed)
                   /\ ~s.active

\* a tracked apollo run that never got a credential has returned
C16_Witness ==
    \E r \in RunIds :
        /\ run[r].pc = "returned"
        /\ run[r].got_none
        /\ ~run[r].called
        /\ run[r].method = "apollo"
        /\ run[r].created
        /\ run[r].sid \in DOMAIN status_sessions
        /\ run[r].ret.count = 0

(***************************************************************************)
(* A further claim about the status tracker, checked under SpecTracker      *)
(***************************************************************************)
\* C17: every get_status call for a session id that is not in the registry
\* when the call looks it up (after its sweep of old sessions) returns the
\* not-found result, and the id is not in the registry after the call.
C17_UnknownIdNotFound ==
    [][\A sid \in SessionIds :
          (last_poll'.sid = sid
             /\ sid \notin DOMAIN cleanup_old_sessions(status_sessions, now)) =>
              /\ last_poll'.status = "not_found"
              /\ last_poll'.current = <<>>
              /\ sid \notin DOMAIN status_sessions']_vars

\* get_status has just answered for an id no session was ever created for
C17_Witness ==
    \E sid \in SessionIds :
        /\ last_poll.sid = sid
        /\ last_poll.status = "not_found"
        /\ track[sid].log = <<>>
        /\ sid \notin DOMAIN status_sessions

(***************************************************************************)
(* Claims about ICP scoring, checked under SpecScore                        *)
(***************************************************************************)
\* C18: the grade of every result analyze_profile returns is the bucket of
\* its percentage under the thresholds >=90 A+, >=80 A, >=70 B+, >=60 B,
\* >=50 C+, >=40 C, >=30 D+, otherwise D.
C18_GradeIsBucketOfPercentage ==
    (scoring.stage \in {"analyzed", "assigned"} /\ scoring.result # NoResult) =>
        scoring.result.icp_grade = calculate_grade(scoring.result.icp_percentage)

\* C19: every score result produced (what analyze_profile returns, normal or
\* default, and what generate_leads writes on the lead, its fallback
\* included) has a total score within 0..10 and a percentage equal to
\* min(100, total score * 10).
C19_PercentageFromTotal ==
    /\ (scoring.stage \in {"analyzed", "assigned"} /\ scoring.result # NoResult) =>
          /\ scoring.result.icp_score \in 0..(10 * Pt)
          /\ scoring.result.icp_percentage
                = Min(100 * Pt, scoring.result.icp_score * 10)
    /\ scoring.stage = "assigned" =>
          /\ scoring.lead.icp_score \in 0..(10 * Pt)
          /\ scoring.lead.icp_percentage = Min(100 * Pt, scoring.lead.icp_score * 10)

\* C20: the total score of a normal analyze_profile result is the average of
\* its four validated sub-scores under the configured weights (30, 30, 20,
\* 20 of 100), to the nearest hundredth, whatever total the oracle reported.
C20_TotalIsWeightedAverage ==
    (scoring.stage \in {"analyzed", "assigned"} /\ scoring.result.kind = "normal") =>
        LET b == scoring.result.icp_breakdown
            weighted == ConfigWeights.industry_fit * b.industry_fit
                          + ConfigWeights.role_fit * b.role_fit
                          + ConfigWeights.company_size_fit * b.company_size_fit
                          + ConfigWeights.decision_maker * b.decision_maker
        IN (100 * scoring.result.icp_score - weighted) \in (-50)..50

(***************************************************************************)
(* A claim about two runs sharing the pool, checked under SpecShared        *)
(***************************************************************************)
\* C21: with two runs interleaved at their suspension points on one pool, no
\* key's daily usage ever exceeds the cap, and every acquisition that hands a
\* run a key raises the daily usage (as the day's reset, when one is due,
\* leaves it) of exactly one key, by one.
C21_AcquisitionCountsOnce ==
    [][/\ \A k \in Keys : token_queue'.daily_limits[k] <= DailyCap
       /\ \A r \in RunIds :
            (run[r].pc = "apollo_loop" /\ run'[r].pc = "apollo_call") =>
                LET before == ResetIfNewDay(token_queue, today).daily_limits
                    after == token_queue'.daily_limits
                IN \E k \in Keys :
                      /\ after[k] = before[k] + 1
                      /\ \A j \in Keys \ {k} : after[j] = before[j]]_vars

(***************************************************************************)
(* A claim about closing a session, checked under SpecClose                 *)
(***************************************************************************)
C22_Closed(r) == InFlight(r) /\ run[r].sid \notin DOMAIN status_sessions

C22_Summary(r) ==
    /\ run[r].pc = "returned"
    /\ run[r].method \in {"apollo", "google_apify"} =>
          /\ run[r].ret = [status |-> "success", count |-> Len(run[r].leads)]
          /\ run[r].persisted = Len(run[r].leads)

\* C22: once the session of a run in flight has been closed, no step (an
\* emit_status of the run least of all) changes the registry, every
\* get_status for the id returns not found, and the run goes on to return
\* its summary, having handed all its leads to persistence.
C22_CloseOnlyHidesStatus ==
    /\ [][\A r \in RunIds :
            C22_Closed(r) =>
               /\ status_sessions' = status_sessions
               /\ last_poll'.sid = run[r].sid => last_poll'.status = "not_found"]_vars
    /\ \A r \in RunIds : C22_Closed(r) ~> C22_Summary(r)

\* an apollo run whose session was closed in flight has scored and persisted
\* its leads and returned
C22_Witness ==
    \E r \in RunIds :
        /\ run[r].created
        /\ run[r].sid \notin DOMAIN status_sessions
        /\ run[r].pc = "returned"
        /\ run[r].method = "apollo"
        /\ run[r].persisted > 0
        /\ \E j \in 1..Len(run[r].leads) : run[r].leads[j].score = "scored"

(***************************************************************************)
(* A further claim about persistence, checked under SpecRecord             *)
(***************************************************************************)
\* C23: every key of a record _save_leads_to_db hands to the store is a
\* column returned by get_valid_db_columns, and every mapped field that is
\* no such column is left out of the record and listed in skipped_fields.
C23_OnlySchemaColumnsSent ==
    last_save.has_stats =>
        /\ last_save.record_keys \subseteq get_valid_db_columns
        /\ \A f \in MappedKeys(last_save.profile_keys) \ get_valid_db_columns :
              f \notin last_save.record_keys /\ f \in last_save.skipped_fields

(***************************************************************************)
(* Claims about the retry loops, checked under SpecRun                      *)
(***************************************************************************)
C24_Marking == HttpMarked \cup {"soft_exhaustion"}

C25_InSearch(r) ==
    run[r].pc \in {"apollo_loop", "apollo_call", "enrich_loop", "enrich_call"}

\* C25: one invocation of _search_apollo_leads or enrich_profile_with_apify
\* asks for a credential at most pool-size times and calls the provider at
\* most pool-size times, and whatever the provider answers the invocation
\* comes to its end.
C25_BoundedRetries ==
    /\ [](\A r \in RunIds :
            /\ run[r].acqs <= NumKeys
            /\ run[r].calls <= run[r].acqs)
    /\ \A r \in RunIds : C25_InSearch(r) ~> ~C25_InSearch(r)

\* an invocation of either function has ended after pool-size provider calls
C25_Witness ==
    \E r \in RunIds :
        /\ ~C25_InSearch(r)
        /\ run[r].sret.fn \in {"apollo", "enrich"}
        /\ run[r].calls = NumKeys
        /\ run[r].acqs = NumKeys

(***************************************************************************)
(* Claims about the session flags and the terminal events of a run,        *)
(* checked under SpecRun                                                   *)
(***************************************************************************)
\* C26: in every reachable state of a tracked session, completed is true
\* only if a terminal event (generation_completed or error) has been
\* emitted for that session, and active is the negation of completed, for
\* every event payload the apollo and google_apify pipelines emit.
C26_CompletedOnlyAfterTerminal ==
    \A x \in DOMAIN status_sessions :
        LET s == status_sessions[x] IN
        /\ Truthy(s.completed) => HasTerminal(s.status_history)
        /\ s.active = ~Truthy(s.completed)

\* C27: within one generate_leads run a terminal event is final: a
\* generation_completed or error event in a session's history is its last
\* entry, so the history holds at most one terminal event.
C27_TerminalEventIsLast ==
    \A x \in DOMAIN status_sessions :
        LET h == status_sessions[x].status_history IN
        \A j \in 1..Len(h) : Terminal(h[j].type) => j = Len(h)

(***************************************************************************)
(* Claims about the session log, checked under SpecTracker                 *)
(***************************************************************************)
\* an emit_status call for sid that is not the "started" of a new session:
\* the observer's log has grown by a status dict of another type
C28_Emitted(sid) ==
    /\ Len(track'[sid].log) = Len(track[sid].log) + 1
    /\ track'[sid].log[Len(track'[sid].log)].type # "started"

\* C28: the session log is append-only and current tracks it: each
\* emit_status on an existing session lengthens its history by exactly one
\* entry, the emitted one, without changing or removing earlier entries;
\* whenever the history is non-empty current equals its last entry; and
\* emit_status on an unknown id changes nothing.
C28_AppendOnlyLog ==
    /\ [][\A sid \in SessionIds :
             C28_Emitted(sid) =>
                 IF sid \in DOMAIN status_sessions
                 THEN /\ sid \in DOMAIN status_sessions'
                      /\ status_sessions'[sid].status_history =
                             Append(status_sessions[sid].status_history,
                                    track'[sid].log[Len(track'[sid].log)])
                      /\ \A x \in DOMAIN status_sessions \ {sid} :
                             /\ x \in DOMAIN status_sessions'
                             /\ status_sessions'[x] = status_sessions[x]
                 ELSE status_sessions' = status_sessions]_vars
    /\ [](\A x \in DOMAIN status_sessions :
             LET h == status_sessions[x].status_history IN
             h # <<>> => status_sessions[x].current_status = <<h[Len(h)]>>)

\* a session whose history holds two entries, created after an emit for its
\* id, then unknown, had changed nothing
C28_Witness ==
    \E sid \in SessionIds :
        /\ sid \in DOMAIN status_sessions
        /\ Len(status_sessions[sid].status_history) = 2
        /\ Len(track[sid].log) = 3
        /\ track[sid].log[1].type # "started"
        /\ status_sessions[sid].status_history = SubSeq(track[sid].log, 2, 3)

(***************************************************************************)
(* Claims about the daily reset, checked under SpecPool                    *)
(***************************************************************************)
\* the step is a call that runs get_next_key (directly, or from
\* get_next_available_key, whose first act it is)
C29_Acquires ==
    /\ last'.op \in {"get_next_key", "get_next_available_key"}
    /\ ops' # ops

\* C29: the daily reset of APIKeyQueue happens lazily inside get_next_key
\* and exactly once per calendar-day rollover: the passing of midnight
\* leaves the queue as it is; the first get_next_key after the date has
\* changed sets every usage counter to 0 and empties the exhausted set
\* before a key is chosen (after the call nothing is exhausted, no counter
\* is above 1, the key returned has been counted once, the reset date is
\* the current date); later calls on the same day perform no reset (no
\* counter decreases, no key leaves the exhausted set).
C29_LazyResetOncePerDay ==
    [][/\ token_queue'.last_reset # token_queue.last_reset =>
              C29_Acquires /\ today > token_queue.last_reset
       /\ today' # today => token_queue' = token_queue
       /\ (C29_Acquires /\ today > token_queue.last_reset) =>
              /\ token_queue'.last_reset = today
              /\ token_queue'.exhausted_keys = {}
              /\ \A k \in Keys : token_queue'.daily_limits[k] <= 1
              /\ last'.ret # None => token_queue'.daily_limits[last'.ret] = 1
              /\ last'.op = "get_next_key" =>
                     /\ last'.ret # None
                     /\ \A k \in Keys \ {last'.ret} :
                            token_queue'.daily_limits[k] = 0
       /\ (C29_Acquires /\ today = token_queue.last_reset) =>
              /\ token_queue'.last_reset = today
              /\ token_queue'.exhausted_keys = token_queue.exhausted_keys
              /\ \A k \in Keys :
                     token_queue'.daily_limits[k] >= token_queue.daily_limits[k]
      ]_vars

\* the second get_next_key call of a day whose first call made the reset
\* that cleared a marked key and the usage of the day before
C29_Witness ==
    /\ last.op = "get_next_key"
    /\ today > 0
    /\ token_queue.last_reset = today
    /\ calls_on_day = 2
    /\ svc_exhausted # {}
    /\ token_queue.exhausted_keys = {}
    /\ Cardinality({k \in Keys : token_queue.daily_limits[k] = 1}) = 2
    /\ \A k \in Keys : token_queue.daily_limits[k] <= 1

(***************************************************************************)
(* Claim about the scoring of apollo profiles, checked under SpecRun       *)
(***************************************************************************)
\* the positions in history h of the events of type t
C30_At(h, t) == {i \in 1..Len(h) : h[i].type = t}

\* C30: for the apollo method generate_leads calls the scorer once per
\* profile, in every configuration: every lead that has been handed to
\* persistence carries a score and a grade, and in a tracked run
\* icp_scoring_started, one lead_scored per profile and
\* icp_scoring_completed precede saving_leads_started.
C30_ApolloLeadsAlwaysScored ==
    \A r \in RunIds :
        (run[r].method = "apollo" /\ run[r].persisted > 0) =>
            /\ \A j \in 1..Len(run[r].leads) : run[r].leads[j].score # "none"
            /\ (run[r].created /\ run[r].sid \in DOMAIN status_sessions) =>
                   LET h == status_sessions[run[r].sid].status_history IN
                   \A s \in C30_At(h, "saving_leads_started") :
                       /\ \E i \in C30_At(h, "icp_scoring_started") : i < s
                       /\ \E i \in C30_At(h, "icp_scoring_completed") : i < s
                       /\ Cardinality({i \in C30_At(h, "lead_scored") : i < s})
                              = Len(run[r].leads)

====
